---- MODULE Spec2Model ----
(***************************************************************************)
(* The three scripts of the repository as one state machine.  A behaviour  *)
(* executes one of them, chosen by prog:                                   *)
(*   "provision"  two runs of provision.py main() against one Keycloak     *)
(*                server (in succession or interleaved);                   *)
(*   "roles"      create_client_roles called directly with any roles list; *)
(*   "kv"         the KeyVault wrapper of kv/kv.py;                        *)
(*   "cli"        one invocation of a command of cli/provision_cli.py.     *)
(* The remote systems answer truthfully, or, while the fault budget lasts, *)
(* with an error reply.                                                    *)
(***************************************************************************)
EXTENDS Naturals, Sequences, FiniteSets, TLC

VARIABLES
    prog,                \* which script this behaviour executes
    realms,              \* server: set of realm representations
    clients,             \* server: set of client representations
    roles,               \* server: set of client-role representations
    users,               \* server: set of user representations
    faults,              \* number of error replies injected so far
    entry,               \* per run: the function the run entered
    roles_arg,           \* per run: the roles list given to create_client_roles
    pc,                  \* per run: the remote call it is about to issue
    curRealm,            \* per run: realm the admin connection points at
    client_internal_id,  \* per run: local of main / create_client_roles
    existing_role_names, \* per run: local of create_client_roles
    idx,                 \* per run: position of the for loop over roles
    exc,                 \* per run: the exception that ended it ("none")
    tail,                \* per run: how the statements after main() ended
                         \* ("pending": not reached, "none": all executed)
    calls,               \* per run: remote calls issued, with their replies
    out,                 \* per run: lines printed
    startSnap,           \* per run: the server state when the run began
    after,               \* per run: began when another run had completed
    atCall,              \* per run: what each function found present when called
    overlap,             \* some run took a step while another was under way
    kvArgs,              \* KeyVault: tenant_id, client_id, client_secret given
    kvPc,                \* KeyVault: "new" before __init__, then "ready"
    kvCredential,        \* KeyVault: the credential class __init__ chose
    vault,               \* secret store: the secrets, name and value
    kvLast,              \* KeyVault: the last method call and how it ended
    kvDel,               \* KeyVault: the last delete, its purge flag and calls
    cliArgv,             \* CLI: the command invoked and its --force flag
    cliEnv,              \* CLI: value of PROVISIONER_DRY_RUN ("unset": absent)
    cliConfig,           \* CLI: ctx.obj["config"]
    cliPc,               \* CLI: "start", "command", "exited"
    cliAnswer,           \* CLI: what the user typed ("none": never asked)
    cliOut,              \* CLI: what was echoed
    cliExit              \* CLI: exit code of the process

srvVars == <<realms, clients, roles>>
provVars == <<realms, clients, roles, users, tail, entry, roles_arg, pc, curRealm,
              client_internal_id, existing_role_names, idx, exc, calls, out,
              startSnap, after, atCall, overlap, faults>>

kvVars == <<kvArgs, kvPc, kvCredential, vault, kvLast, kvDel>>
cliVars == <<cliArgv, cliEnv, cliConfig, cliPc, cliAnswer, cliOut, cliExit>>

----------------------------------------------------------------------------
\* Bounds of the model.

\* error replies the remote systems may give in one behaviour
MaxFaults == 1
\* longest roles list given to create_client_roles when called directly
MaxListLen == 2

----------------------------------------------------------------------------
\* provision.py: configuration.

REALM_NAME == "calendar"
CLIENT_ID == "calendar-app"
CLIENT_ROLES == <<"reader", "writer", "owner">>

Runs == {"run1", "run2"}
RoleNames == {CLIENT_ROLES[i] : i \in DOMAIN CLIENT_ROLES}

\* the skip_exists argument of each create call (create_client: the default)
create_realm_skip_exists == TRUE
create_client_skip_exists_on == TRUE
create_client_skip_exists == FALSE
create_client_role_skip_exists == TRUE

\* payload of admin.create_realm
realm_payload(realm_name) ==
    [realm |-> realm_name, enabled |-> TRUE,
     displayName |-> "Calendar Application", registrationAllowed |-> FALSE]

\* payload of admin.create_client
client_payload(client_id) ==
    [clientId |-> client_id, name |-> "Calendar Application", enabled |-> TRUE,
     publicClient |-> FALSE, protocol |-> "openid-connect"]

\* payload of admin.create_client_role
role_payload(role_name) ==
    [name |-> role_name, description |-> "Calendar " \o role_name \o " role",
     composite |-> FALSE, clientRole |-> TRUE]

----------------------------------------------------------------------------
\* The identity-admin API as the script consumes it: the reply of each call
\* on the current server state, and the state a successful create leaves.

Server == <<realms, clients, roles>>

MasterRealm ==
    [realm |-> "master", enabled |-> TRUE, displayName |-> "Keycloak",
     registrationAllowed |-> FALSE]

\* a realm other than the requested one in its attributes
LegacyRealm ==
    [realm |-> REALM_NAME, enabled |-> TRUE, displayName |-> "Legacy",
     registrationAllowed |-> TRUE]

\* the client every realm is born with
AccountClient(realm) ==
    [realm |-> realm, id |-> "uuid-account", secret |-> "",
     clientId |-> "account", name |-> "Account", enabled |-> TRUE,
     publicClient |-> TRUE, protocol |-> "openid-connect"]

\* the server-generated parts of a client created from a payload
NewClient(realm, payload) ==
    [realm |-> realm, id |-> "uuid-new-" \o realm,
     secret |-> IF payload.publicClient THEN "" ELSE "generated-secret"]
    @@ payload

\* clients found on a server that was provisioned before
OldClients ==
    { [realm |-> REALM_NAME, id |-> "uuid-old", secret |-> "old-secret"]
          @@ client_payload(CLIENT_ID),
      [realm |-> REALM_NAME, id |-> "uuid-old", secret |-> "",
       clientId |-> CLIENT_ID, name |-> "Legacy", enabled |-> TRUE,
       publicClient |-> TRUE, protocol |-> "openid-connect"] }

NewRole(cid, payload) == [client |-> cid] @@ payload

LegacyRole(cid, name) ==
    [client |-> cid, name |-> name, description |-> "legacy",
     composite |-> FALSE, clientRole |-> TRUE]

RealmExists(name) == \E r \in realms : r.realm = name

ClientsOf(realm) == {c \in clients : c.realm = realm}

ClientById(realm, cid) == {c \in ClientsOf(realm) : c.id = cid}

RolesOf(cid) == {r \in roles : r.client = cid}

ReplyGetRealm(name) == IF RealmExists(name) THEN "200" ELSE "404"

ReplyCreateRealm(payload) == IF RealmExists(payload.realm) THEN "409" ELSE "201"

ReplyListClients(realm) == IF RealmExists(realm) THEN "200" ELSE "404"

ReplyCreateClient(realm, payload) ==
    IF ~RealmExists(realm) THEN "404"
    ELSE IF \E c \in ClientsOf(realm) : c.clientId = payload.clientId THEN "409"
    ELSE "201"

ReplyClient(realm, cid) == IF ClientById(realm, cid) # {} THEN "200" ELSE "404"

ReplyCreateRole(realm, cid, payload) ==
    IF ClientById(realm, cid) = {} THEN "404"
    ELSE IF \E r \in RolesOf(cid) : r.name = payload.name THEN "409"
    ELSE "201"

\* the body of get-client-secrets: a public client has no "value"
SecretData(realm, cid) ==
    LET c == CHOOSE c \in ClientById(realm, cid) : TRUE
    IN  IF c.secret = "" THEN [type |-> "secret"]
        ELSE [type |-> "secret", value |-> c.secret]

\* error replies: an HTTP error status (permission denied), no connection
FaultReplies == {"403", "net"}

\* what a call may be answered: the truth, or an error while the budget lasts
Reply(truth) == {truth} \cup (IF faults < MaxFaults THEN FaultReplies ELSE {})

----------------------------------------------------------------------------
\* The python-keycloak client as the script uses it.

\* the exception a call ends with ("none": it returns): a reply other than
\* success raises the error class of the call, except 409 under skip_exists;
\* a failed connection raises KeycloakConnectionError
Raised(errclass, reply, skip_exists) ==
    IF reply = "net" THEN "KeycloakConnectionError"
    ELSE IF reply \in {"200", "201"} THEN "none"
    ELSE IF reply = "409" /\ skip_exists THEN "none"
    ELSE errclass

\* dict.get(key, default)
DictGet(d, key, default) == IF key \in DOMAIN d THEN d[key] ELSE default

\* admin.get_client_id: the internal id of the client named client_id
get_client_id(realm, client_id) ==
    LET found == {c \in ClientsOf(realm) : c.clientId = client_id}
    IN  IF found = {} THEN "None" ELSE (CHOOSE c \in found : TRUE).id

----------------------------------------------------------------------------
\* Bookkeeping shared by the steps of a run.

Call(op, realm, client, name, reply) ==
    [op |-> op, realm |-> realm, client |-> client, name |-> name,
     reply |-> reply]

Begun(q) == calls[q] # <<>>

Finished(q) == pc[q] \in {"done", "failed"}

\* a search that compares the display name instead of the clientId
FindClient_byName(realm, client_id) ==
    {c \in ClientsOf(realm) : c.name = client_id}

\* the client named client_id among those of the realm (at most one)
FindClient(realm, client_id) ==
    {c \in ClientsOf(realm) : c.clientId = client_id}

\* the entities of the names a function is about, as the server holds them
\* at the moment the function is called
Present(p, fn) ==
    CASE fn = "create_realm" ->
           [atCall[p] EXCEPT !.realm = {r \in realms : r.realm = REALM_NAME}]
      [] fn = "create_client" ->
           [atCall[p] EXCEPT !.client = FindClient(curRealm[p], CLIENT_ID)]
      [] fn = "create_client_roles" ->
           [atCall[p] EXCEPT !.roles =
               {r \in RolesOf(client_internal_id[p]) :
                   \E i \in DOMAIN roles_arg[p] : roles_arg[p][i] = r.name}]
      [] OTHER -> atCall[p]

\* what every step records: an injected error reply, whether another run is
\* under way, at the first step the server state the run starts from, and
\* at the first step of function fn what it finds present
Tick(p, reply, fn) ==
    /\ atCall' = [atCall EXCEPT ![p] = Present(p, fn)]
    /\ faults' = IF reply \in FaultReplies THEN faults + 1 ELSE faults
    /\ overlap' = (overlap \/ \E q \in Runs \ {p} : Begun(q) /\ ~Finished(q))
    /\ startSnap' = IF Begun(p) THEN startSnap
                    ELSE [startSnap EXCEPT ![p] = Server]
    /\ after' = IF Begun(p) THEN after
                ELSE [after EXCEPT ![p] = \E q \in Runs \ {p} : pc[q] = "done"]

\* a step that ends with exception e ("none": the run goes on to next)
Goto(p, e, next) ==
    /\ pc' = [pc EXCEPT ![p] = IF e = "none" THEN next ELSE "failed"]
    /\ exc' = [exc EXCEPT ![p] = e]

Emit(p, e, lines) ==
    out' = [out EXCEPT ![p] = IF e = "none" THEN @ \o lines ELSE @]

----------------------------------------------------------------------------
\* provision.py, one action per remote call; the code between two calls
\* belongs to the action of the call before it.

\* main: get_admin_client()
Connect(p) ==
    /\ prog = "provision" /\ pc[p] = "start"
    /\ \E reply \in Reply("200") :
         LET e == Raised("KeycloakPostError", reply, FALSE)
         IN  /\ calls' = [calls EXCEPT ![p] =
                            Append(@, Call("token", "master", "", "", reply))]
             /\ Goto(p, e, "get_realm")
             /\ Emit(p, e, <<"Connected to Keycloak">>)
             /\ Tick(p, reply, "none")
    /\ UNCHANGED <<kvVars, cliVars, prog, srvVars, entry, users, tail,
                   roles_arg, curRealm,
                   client_internal_id, existing_role_names, idx>>

\* main without the switch: the connection stays on the master realm
change_current_realm_skipped(p, e, realm_name) == UNCHANGED curRealm

\* the realm main switches to once create_realm returned
change_current_realm(p, e, realm_name) ==
    curRealm' = [curRealm EXCEPT ![p] = IF e = "none" THEN realm_name ELSE @]

\* create_realm: the except clause, which takes the realm to be absent
CaughtAsAbsent(e) == e = "KeycloakGetError"

\* create_realm: admin.get_realm inside try; except KeycloakGetError
GetRealm(p) ==
    /\ pc[p] = "get_realm"
    /\ \E reply \in Reply(ReplyGetRealm(REALM_NAME)) :
         LET e == Raised("KeycloakGetError", reply, FALSE)
             caught == CaughtAsAbsent(e)
         IN  /\ calls' = [calls EXCEPT ![p] =
                   Append(@, Call("get_realm", curRealm[p], "", REALM_NAME, reply))]
             /\ IF caught
                THEN /\ pc' = [pc EXCEPT ![p] = "create_realm"]
                     /\ UNCHANGED <<exc, out, curRealm>>
                ELSE /\ Goto(p, e, "get_clients")
                     /\ Emit(p, e, <<"Realm '" \o REALM_NAME \o "' already exists">>)
                     /\ change_current_realm(p, e, REALM_NAME)
             /\ Tick(p, reply, "create_realm")
    /\ UNCHANGED <<kvVars, cliVars, prog, srvVars, entry, users, tail,
                   roles_arg, client_internal_id,
                   existing_role_names, idx>>

\* create_realm: admin.create_realm(payload, skip_exists=True) in the handler
CreateRealm(p) ==
    /\ pc[p] = "create_realm"
    /\ LET payload == realm_payload(REALM_NAME)
       IN  \E reply \in Reply(ReplyCreateRealm(payload)) :
             LET e == Raised("KeycloakPostError", reply, create_realm_skip_exists)
             IN  /\ calls' = [calls EXCEPT ![p] =
                       Append(@, Call("create_realm", curRealm[p], "", REALM_NAME, reply))]
                 /\ realms' = IF reply = "201" THEN realms \cup {payload} ELSE realms
                 /\ clients' = IF reply = "201"
                               THEN clients \cup {AccountClient(REALM_NAME)}
                               ELSE clients
                 /\ Goto(p, e, "get_clients")
                 /\ Emit(p, e, <<"Created realm '" \o REALM_NAME \o "'">>)
                 /\ change_current_realm(p, e, REALM_NAME)
                 /\ Tick(p, reply, "none")
    /\ UNCHANGED <<kvVars, cliVars, prog, roles, entry, users, tail,
                   roles_arg, client_internal_id,
                   existing_role_names, idx>>

\* create_client: admin.get_clients() and the search for client_id
GetClients(p) ==
    /\ pc[p] = "get_clients"
    /\ \E reply \in Reply(ReplyListClients(curRealm[p])) :
         LET e == Raised("KeycloakGetError", reply, FALSE)
             found == FindClient(curRealm[p], CLIENT_ID)
             hit == e = "none" /\ found # {}
         IN  /\ calls' = [calls EXCEPT ![p] =
                   Append(@, Call("get_clients", curRealm[p], "", "", reply))]
             /\ Goto(p, e, IF hit THEN "get_client_roles" ELSE "create_client")
             /\ out' = [out EXCEPT ![p] =
                   IF hit THEN Append(@, "Client '" \o CLIENT_ID \o "' already exists")
                   ELSE @]
             /\ client_internal_id' = [client_internal_id EXCEPT ![p] =
                   IF hit THEN (CHOOSE c \in found : TRUE).id ELSE @]
             /\ Tick(p, reply, "create_client")
    /\ UNCHANGED <<kvVars, cliVars, prog, srvVars, entry, users, tail,
                   roles_arg, curRealm,
                   existing_role_names, idx>>

\* create_client: admin.create_client(client_payload)
CreateClient(p) ==
    /\ pc[p] = "create_client"
    /\ LET payload == client_payload(CLIENT_ID)
       IN  \E reply \in Reply(ReplyCreateClient(curRealm[p], payload)) :
             LET e == Raised("KeycloakPostError", reply, create_client_skip_exists)
             IN  /\ calls' = [calls EXCEPT ![p] =
                       Append(@, Call("create_client", curRealm[p], "", CLIENT_ID, reply))]
                 /\ clients' = IF reply = "201"
                               THEN clients \cup {NewClient(curRealm[p], payload)}
                               ELSE clients
                 /\ Goto(p, e, "get_client_id")
                 /\ Emit(p, e, <<"Created client '" \o CLIENT_ID \o "'">>)
                 /\ Tick(p, reply, "none")
    /\ UNCHANGED <<kvVars, cliVars, prog, realms, roles, entry, users, tail,
                   roles_arg, curRealm,
                   client_internal_id, existing_role_names, idx>>

\* create_client: admin.get_client_id(client_id), the value returned
GetClientId(p) ==
    /\ pc[p] = "get_client_id"
    /\ \E reply \in Reply(ReplyListClients(curRealm[p])) :
         LET e == Raised("KeycloakGetError", reply, FALSE)
         IN  /\ calls' = [calls EXCEPT ![p] =
                   Append(@, Call("get_client_id", curRealm[p], "", CLIENT_ID, reply))]
             /\ client_internal_id' = [client_internal_id EXCEPT ![p] =
                   IF e = "none" THEN get_client_id(curRealm[p], CLIENT_ID) ELSE @]
             /\ Goto(p, e, "get_client_roles")
             /\ Tick(p, reply, "none")
    /\ UNCHANGED <<kvVars, cliVars, prog, srvVars, entry, users, tail,
                   roles_arg, curRealm,
                   existing_role_names, idx, out>>

\* where a run goes when the loop of create_client_roles is over
AfterRoles(p) == IF entry[p] = "main" THEN "get_client_secrets" ELSE "done"

\* create_client_roles: admin.get_client_roles and the set of existing names
GetClientRoles(p) ==
    /\ pc[p] = "get_client_roles"
    /\ \E reply \in Reply(ReplyClient(curRealm[p], client_internal_id[p])) :
         LET e == Raised("KeycloakGetError", reply, FALSE)
         IN  /\ calls' = [calls EXCEPT ![p] =
                   Append(@, Call("get_client_roles", curRealm[p],
                                  client_internal_id[p], "", reply))]
             /\ existing_role_names' = [existing_role_names EXCEPT ![p] =
                   IF e = "none"
                   THEN {r.name : r \in RolesOf(client_internal_id[p])}
                   ELSE @]
             /\ idx' = [idx EXCEPT ![p] = 1]
             /\ Goto(p, e, IF roles_arg[p] = <<>> THEN AfterRoles(p) ELSE "role_loop")
             /\ Tick(p, reply, "create_client_roles")
    /\ UNCHANGED <<kvVars, cliVars, prog, srvVars, entry, users, tail,
                   roles_arg, curRealm,
                   client_internal_id, out>>

\* a loop that walks the list from its end
RoleAt_reversed(roles_list, i) == roles_list[Len(roles_list) + 1 - i]

\* create_client_roles: for role_name in roles, the name of iteration i
RoleAt(roles_list, i) == roles_list[i]

\* create_client_roles: one iteration of the for loop over roles
RoleIter(p) ==
    /\ pc[p] = "role_loop"
    /\ LET role_name == RoleAt(roles_arg[p], idx[p])
           payload == role_payload(role_name)
           next == IF idx[p] = Len(roles_arg[p]) THEN AfterRoles(p) ELSE "role_loop"
       IN  IF role_name \in existing_role_names[p]
           THEN /\ Goto(p, "none", next)
                /\ Emit(p, "none", <<"Role '" \o role_name \o "' already exists">>)
                /\ Tick(p, "local", "none")
                /\ UNCHANGED <<calls, roles>>
           ELSE \E reply \in Reply(ReplyCreateRole(curRealm[p],
                                                   client_internal_id[p], payload)) :
                  LET e == Raised("KeycloakPostError", reply, create_client_role_skip_exists)
                  IN  /\ calls' = [calls EXCEPT ![p] =
                            Append(@, Call("create_client_role", curRealm[p],
                                           client_internal_id[p], role_name, reply))]
                      /\ roles' = IF reply = "201"
                                  THEN roles \cup {NewRole(client_internal_id[p], payload)}
                                  ELSE roles
                      /\ Goto(p, e, next)
                      /\ Emit(p, e, <<"Created role '" \o role_name \o "'">>)
                      /\ Tick(p, reply, "none")
    /\ idx' = [idx EXCEPT ![p] = @ + 1]
    /\ UNCHANGED <<kvVars, cliVars, prog, realms, clients, entry, users, tail,
                   roles_arg, curRealm,
                   client_internal_id, existing_role_names>>

\* provision.py: the names bound in the module namespace once main() has
\* returned: the imports, the constants and the functions.  admin is a local
\* of main and of the functions that take it as a parameter.
ModuleGlobals ==
    {"KeycloakAdmin", "KeycloakGetError", "os", "KEYCLOAK_URL",
     "ADMIN_USERNAME", "ADMIN_PASSWORD", "REALM_NAME", "CLIENT_ID",
     "CLIENT_ROLES", "get_admin_client", "create_realm", "create_client",
     "create_client_roles", "get_client_secret", "main"}

\* evaluation of a name by a statement at module level
NameLookup(name) == IF name \in ModuleGlobals THEN "none" ELSE "NameError"

\* payload of admin.create_user
user_payload == [username |-> "testuser", email |-> "test@example.com",
                 enabled |-> TRUE]

\* the requests of the statements after the __main__ guard:
\* admin.create_user(...), admin.get_user_id, admin.get_client_id,
\* admin.get_client_role, admin.assign_client_role.  The first statement
\* evaluates the name admin; the requests follow only if it is bound.
ModuleCalls(realm) ==
    LET cid == get_client_id(realm, "calendar-app")
    IN  IF NameLookup("admin") = "none"
        THEN << Call("create_user", realm, "", "testuser", "201"),
                Call("get_user_id", realm, "", "testuser", "200"),
                Call("get_client_id", realm, "", "calendar-app", "200"),
                Call("get_client_role", realm, cid, "owner", "200"),
                Call("assign_client_role", realm, cid, "testuser", "204") >>
        ELSE <<>>

\* the user those requests leave on the server
ModuleUsers(realm) ==
    IF NameLookup("admin") = "none"
    THEN {[realm |-> realm,
           client_roles |-> {<<get_client_id(realm, "calendar-app"), "owner">>}]
              @@ user_payload}
    ELSE {}

\* the statements after the __main__ guard, reached when main() has returned
\* (e = "none"): how they end, and what they leave on the server
ModuleStatements(p, e) ==
    /\ tail' = [tail EXCEPT ![p] = IF e = "none" THEN NameLookup("admin") ELSE @]
    /\ users' = IF e = "none" THEN users \cup ModuleUsers(curRealm[p]) ELSE users

\* get_client_secret, the summary main prints with its result, and the
\* statements of the module that follow the return of main
GetClientSecret(p) ==
    /\ pc[p] = "get_client_secrets"
    /\ \E reply \in Reply(ReplyClient(curRealm[p], client_internal_id[p])) :
         LET e == Raised("KeycloakGetError", reply, FALSE)
             client_secret == IF e = "none"
                              THEN DictGet(SecretData(curRealm[p], client_internal_id[p]),
                                           "value", "")
                              ELSE ""
         IN  /\ calls' = [calls EXCEPT ![p] =
                   Append(@, Call("get_client_secrets", curRealm[p],
                                  client_internal_id[p], "", reply))
                   \o (IF e = "none" THEN ModuleCalls(curRealm[p]) ELSE <<>>)]
             /\ Goto(p, e, "done")
             /\ Emit(p, e, <<"Provisioning complete!",
                              "Client Secret: " \o client_secret>>)
             /\ ModuleStatements(p, e)
             /\ Tick(p, reply, "none")
    /\ UNCHANGED <<kvVars, cliVars, prog, srvVars, entry,
                   roles_arg, curRealm,
                   client_internal_id, existing_role_names, idx>>

----------------------------------------------------------------------------
\* Initial states.

\* all lists over S of length at most n
RECURSIVE ListsUpTo(_, _)
ListsUpTo(S, n) ==
    IF n = 0 THEN {<<>>}
    ELSE LET shorter == ListsUpTo(S, n - 1)
         IN  shorter \cup {Append(l, x) : l \in shorter, x \in S}

\* the role sets a client may hold: any of the names, all as this script
\* creates them or all with attributes of another origin
RoleSets(cid) ==
    { {NewRole(cid, role_payload(n)) : n \in S} : S \in SUBSET RoleNames }
    \cup { {LegacyRole(cid, n) : n \in S} : S \in SUBSET RoleNames }

\* server states with the realm and the client in place
ClientServers ==
    { <<{MasterRealm, r}, {AccountClient(REALM_NAME), c}, rs>> :
      r \in {realm_payload(REALM_NAME), LegacyRealm},
      c \in OldClients, rs \in RoleSets("uuid-old") }

\* server states for create_client_roles alone: the client with any role set
RoleServers ==
    { <<{MasterRealm, realm_payload(REALM_NAME)},
        {AccountClient(REALM_NAME), c}, rs>> :
      c \in {c \in OldClients : ~c.publicClient}, rs \in RoleSets("uuid-old") }

\* every server state a run may find
InitServers ==
    {<<{MasterRealm}, {}, {}>>}
    \cup { <<{MasterRealm, r}, {AccountClient(REALM_NAME)}, {}>> :
           r \in {realm_payload(REALM_NAME), LegacyRealm} }
    \cup ClientServers

InitRunHistory ==
    /\ faults = 0
    /\ users = {}
    /\ tail = [p \in Runs |-> "pending"]
    /\ existing_role_names = [p \in Runs |-> {}]
    /\ idx = [p \in Runs |-> 1]
    /\ exc = [p \in Runs |-> "none"]
    /\ calls = [p \in Runs |-> <<>>]
    /\ out = [p \in Runs |-> <<>>]
    /\ startSnap = [p \in Runs |-> <<{}, {}, {}>>]
    /\ after = [p \in Runs |-> FALSE]
    /\ atCall = [p \in Runs |-> [realm |-> {}, client |-> {}, roles |-> {}]]
    /\ overlap = FALSE

\* two runs of the script: python provision.py
InitProvision ==
    /\ prog = "provision"
    /\ \E s \in InitServers : realms = s[1] /\ clients = s[2] /\ roles = s[3]
    /\ entry = [p \in Runs |-> "main"]
    /\ roles_arg = [p \in Runs |-> CLIENT_ROLES]
    /\ pc = [p \in Runs |-> "start"]
    /\ curRealm = [p \in Runs |-> "master"]
    /\ client_internal_id = [p \in Runs |-> "None"]
    /\ InitRunHistory

\* create_client_roles(admin, client_internal_id, roles) called on its own
InitRoles ==
    /\ prog = "roles"
    /\ \E s \in RoleServers : realms = s[1] /\ clients = s[2] /\ roles = s[3]
    /\ entry = [p \in Runs |-> "create_client_roles"]
    /\ \E l \in ListsUpTo(RoleNames, MaxListLen) : roles_arg = [p \in Runs |-> l]
    /\ pc = [p \in Runs |-> "get_client_roles"]
    /\ curRealm = [p \in Runs |-> REALM_NAME]
    /\ client_internal_id = [p \in Runs |-> "uuid-old"]
    /\ InitRunHistory

----------------------------------------------------------------------------
\* kv/kv.py: the KeyVault wrapper.

SecretNames == {"db-password", "api-key"}
SecretValues == {"", "s3cr3t"}
\* what a caller may pass for an optional str argument: None, "" or text
OptionalStr == {"None", "", "given"}

\* Python truth of an optional str: None and "" are false
Truthy(v) == v \notin {"None", ""}

\* all([...])
PyAll(vs) == \A i \in DOMAIN vs : Truthy(vs[i])

\* any([...])
PyAny(vs) == \E i \in DOMAIN vs : Truthy(vs[i])

\* a constructor that takes the service principal as soon as one is given
Credential_any(tenant_id, client_id, client_secret) ==
    IF PyAny(<<tenant_id, client_id, client_secret>>)
    THEN "ClientSecretCredential"
    ELSE "DefaultAzureCredential"

\* __init__: the credential built from the three optional arguments
Credential(tenant_id, client_id, client_secret) ==
    IF PyAll(<<tenant_id, client_id, client_secret>>)
    THEN "ClientSecretCredential"
    ELSE "DefaultAzureCredential"

\* the exception a SecretClient call ends with ("none": it returns)
AzureRaised(reply) ==
    CASE reply = "200" -> "none"
      [] reply = "404" -> "ResourceNotFoundError"
      [] reply = "net" -> "ServiceRequestError"
      [] OTHER -> "HttpResponseError"

SecretsNamed(name) == {s \in vault : s.name = name}

ReplyGetSecret(name) == IF SecretsNamed(name) # {} THEN "200" ELSE "404"

\* how a method call ended: a value, None, a bool, or an exception raised
Returned(kind, v) == [kind |-> kind, v |-> v]

\* get: secret.value; except ResourceNotFoundError: return None
get(name, reply) ==
    LET e == AzureRaised(reply)
    IN  IF e = "none"
        THEN Returned("value", (CHOOSE s \in SecretsNamed(name) : TRUE).value)
        ELSE IF e = "ResourceNotFoundError" THEN Returned("None", "")
        ELSE Returned("raise", e)

\* exists: self.get(name) is not None
exists(name, reply) ==
    LET r == get(name, reply)
    IN  IF r.kind = "raise" THEN r
        ELSE Returned("bool", IF r.kind # "None" THEN "True" ELSE "False")

KvNew ==
    /\ prog = "kv" /\ kvPc = "new"
    /\ kvCredential' = Credential(kvArgs[1], kvArgs[2], kvArgs[3])
    /\ kvPc' = "ready"
    /\ UNCHANGED <<prog, provVars, cliVars, kvArgs, vault, kvLast, kvDel>>

\* the requests of a call that is not a delete are not recorded
NoDelete == [purge |-> FALSE, trace |-> <<>>]

KvCall(op, name, reply, result) ==
    /\ kvLast' = [op |-> op, name |-> name, reply |-> reply, result |-> result]
    /\ faults' = IF reply \in FaultReplies THEN faults + 1 ELSE faults

KvGet ==
    /\ kvPc = "ready"
    /\ \E name \in SecretNames : \E reply \in Reply(ReplyGetSecret(name)) :
         KvCall("get", name, reply, get(name, reply))
    /\ kvDel' = NoDelete
    /\ UNCHANGED <<prog, srvVars, entry, users, tail,
                   roles_arg, pc, curRealm,
                   client_internal_id, existing_role_names, idx, exc, calls,
                   out, startSnap, after, atCall, overlap, cliVars, kvArgs, kvPc,
                   kvCredential, vault>>

KvExists ==
    /\ kvPc = "ready"
    /\ \E name \in SecretNames : \E reply \in Reply(ReplyGetSecret(name)) :
         KvCall("exists", name, reply, exists(name, reply))
    /\ kvDel' = NoDelete
    /\ UNCHANGED <<prog, srvVars, entry, users, tail,
                   roles_arg, pc, curRealm,
                   client_internal_id, existing_role_names, idx, exc, calls,
                   out, startSnap, after, atCall, overlap, cliVars, kvArgs, kvPc,
                   kvCredential, vault>>

\* set: self._client.set_secret(name, value)
KvSet ==
    /\ kvPc = "ready"
    /\ \E name \in SecretNames, value \in SecretValues : \E reply \in Reply("200") :
         LET e == AzureRaised(reply)
         IN  /\ KvCall("set", name, reply,
                       IF e = "none" THEN Returned("None", "") ELSE Returned("raise", e))
             /\ vault' = IF e = "none"
                         THEN (vault \ SecretsNamed(name))
                              \cup {[name |-> name, value |-> value]}
                         ELSE vault
    /\ kvDel' = NoDelete
    /\ UNCHANGED <<prog, srvVars, entry, users, tail,
                   roles_arg, pc, curRealm,
                   client_internal_id, existing_role_names, idx, exc, calls,
                   out, startSnap, after, atCall, overlap, cliVars, kvArgs, kvPc,
                   kvCredential>>

\* one SecretClient request of delete, or the wait on its poller
KvRequest(op, name, reply) == [op |-> op, name |-> name, reply |-> reply]

\* a delete that purges without waiting for the poller
delete_noWait(name, purge, begun, waited, purged) ==
    LET begin == KvRequest("begin_delete_secret", name, begun)
        last == KvRequest("purge_deleted_secret", name, purged)
    IN  IF AzureRaised(begun) # "none"
        THEN [trace |-> <<begin>>, result |-> Returned("raise", AzureRaised(begun))]
        ELSE IF purge
        THEN [trace |-> <<begin, last>>,
              result |-> IF AzureRaised(purged) = "none" THEN Returned("None", "")
                         ELSE Returned("raise", AzureRaised(purged))]
        ELSE [trace |-> <<begin>>, result |-> Returned("None", "")]

\* delete: begin_delete_secret, poller.wait(), and purge_deleted_secret if
\* purge; given the replies the three would get, the requests it issues and
\* how it ends (an exception of any of them is not caught)
delete(name, purge, begun, waited, purged) ==
    LET begin == KvRequest("begin_delete_secret", name, begun)
        wait == KvRequest("wait", name, waited)
        last == KvRequest("purge_deleted_secret", name, purged)
    IN  IF AzureRaised(begun) # "none"
        THEN [trace |-> <<begin>>, result |-> Returned("raise", AzureRaised(begun))]
        ELSE IF AzureRaised(waited) # "none"
        THEN [trace |-> <<begin, wait>>,
              result |-> Returned("raise", AzureRaised(waited))]
        ELSE IF purge
        THEN [trace |-> <<begin, wait, last>>,
              result |-> IF AzureRaised(purged) = "none" THEN Returned("None", "")
                         ELSE Returned("raise", AzureRaised(purged))]
        ELSE [trace |-> <<begin, wait>>, result |-> Returned("None", "")]

\* kv.delete(name, purge): the secret leaves the vault once the service has
\* accepted begin_delete_secret
KvDelete ==
    /\ kvPc = "ready"
    /\ \E name \in SecretNames, purge \in BOOLEAN :
       \E begun \in Reply(ReplyGetSecret(name)) :
       \E waited \in (IF begun = "200" THEN Reply("200") ELSE {"200"}) :
       \E purged \in (IF purge /\ begun = "200" /\ waited = "200"
                      THEN Reply("200") ELSE {"200"}) :
         LET d == delete(name, purge, begun, waited, purged)
             lastReply == d.trace[Len(d.trace)].reply
         IN  /\ KvCall("delete", name, lastReply, d.result)
             /\ kvDel' = [purge |-> purge, trace |-> d.trace]
             /\ vault' = IF AzureRaised(begun) = "none"
                         THEN vault \ SecretsNamed(name)
                         ELSE vault
    /\ UNCHANGED <<prog, srvVars, entry, users, tail, roles_arg, pc, curRealm,
                   client_internal_id, existing_role_names, idx, exc, calls,
                   out, startSnap, after, atCall, overlap, cliVars, kvArgs, kvPc,
                   kvCredential>>

----------------------------------------------------------------------------
\* cli/provision_cli.py: one invocation of a command.

Verbs == {"create", "update", "delete"}
ResourceTypes == {"server", "database", "bucket"}
\* values PROVISIONER_DRY_RUN may hold
EnvValues == {"unset", "true", "TRUE", "True", "false", "1"}
\* what the user types at the confirmation prompt ("": just Enter)
Answers == {"y", "n", ""}

\* str.lower()
Lower(s) == IF s \in {"true", "TRUE", "True"} THEN "true" ELSE s

\* os.environ.get(key, default)
EnvGet(value, default) == IF value = "unset" THEN default ELSE value

\* get_environment_config: the dry_run entry
get_environment_config(env) == [dry_run |-> Lower(EnvGet(env, "false")) = "true"]

\* click.confirm(..., default=False)
Confirm(answer) == IF answer = "" THEN FALSE ELSE answer = "y"

\* confirm_action: its result and what it echoes
confirm_action(force, answer) ==
    IF force THEN [ok |-> TRUE, echo |-> <<>>]
    ELSE [ok |-> Confirm(answer), echo |-> <<"WARNING", "prompt">>]

\* the group callback: ctx.obj["config"] = get_environment_config()
cli ==
    /\ prog = "cli" /\ cliPc = "start"
    /\ cliConfig' = get_environment_config(cliEnv)
    /\ cliPc' = "command"
    /\ UNCHANGED <<prog, provVars, kvVars, cliArgv, cliEnv, cliAnswer, cliOut,
                   cliExit>>

\* a handler without sys.exit(1): a declined command goes on
Outcome_noExit(confirmed, dry_run, success) ==
    [echo |-> (IF confirmed THEN <<>> ELSE <<"Operation cancelled.">>)
              \o (IF dry_run THEN <<"DRY RUN - No changes made">> ELSE success),
     exit |-> 0]

\* a handler that tests dry_run before it asks for confirmation
Outcome_dryRunFirst(confirmed, dry_run, success) ==
    IF dry_run
    THEN [echo |-> <<"DRY RUN - No changes made">>, exit |-> 0]
    ELSE IF ~confirmed
    THEN [echo |-> <<"Operation cancelled.">>, exit |-> 1]
    ELSE [echo |-> success, exit |-> 0]

\* a handler from the confirmation on: what it echoes and the exit code
Outcome(confirmed, dry_run, success) ==
    IF ~confirmed
    THEN [echo |-> <<"Operation cancelled.">>, exit |-> 1]
    ELSE IF dry_run
    THEN [echo |-> <<"DRY RUN - No changes made">>, exit |-> 0]
    ELSE [echo |-> success, exit |-> 0]

\* the body shared by the nine command handlers
Command(verb, rtype, preamble, success) ==
    /\ cliPc = "command"
    /\ cliArgv.verb = verb /\ cliArgv.rtype = rtype
    /\ \E answer \in (IF cliArgv.force THEN {"none"} ELSE Answers) :
         LET c == confirm_action(cliArgv.force, answer)
             o == Outcome(c.ok, cliConfig.dry_run, success)
         IN  /\ cliAnswer' = answer
             /\ cliOut' = <<"config">> \o preamble \o c.echo \o o.echo
             /\ cliExit' = o.exit
    /\ cliPc' = "exited"
    /\ UNCHANGED <<prog, provVars, kvVars, cliArgv, cliEnv, cliConfig>>

create_server ==
    Command("create", "server", <<"details">>,
            <<"Successfully created server", "Provisioned on">>)

create_database ==
    Command("create", "database", <<"details">>,
            <<"Successfully created database", "Provisioned on">>)

create_bucket ==
    Command("create", "bucket", <<"details">>,
            <<"Successfully created bucket", "Provisioned on">>)

update_server ==
    Command("update", "server", <<"details">>,
            <<"Successfully updated server", "Changes applied on">>)

update_database ==
    Command("update", "database", <<"details">>,
            <<"Successfully updated database", "Changes applied on">>)

update_bucket ==
    Command("update", "bucket", <<"details">>,
            <<"Successfully updated bucket", "Changes applied on">>)

delete_server ==
    Command("delete", "server", <<"details", "IRREVERSIBLE">>,
            <<"Successfully deleted server", "Removed from">>)

delete_database ==
    Command("delete", "database", <<"details", "IRREVERSIBLE">>,
            <<"Successfully deleted database", "Removed from">>)

delete_bucket ==
    Command("delete", "bucket", <<"details", "IRREVERSIBLE">>,
            <<"Successfully deleted bucket", "Removed from">>)

----------------------------------------------------------------------------
\* The scripts not executed in a behaviour stay as they are.

ProvIdle ==
    /\ realms = {} /\ clients = {} /\ roles = {}
    /\ entry = [p \in Runs |-> "none"]
    /\ roles_arg = [p \in Runs |-> <<>>]
    /\ pc = [p \in Runs |-> "off"]
    /\ curRealm = [p \in Runs |-> "master"]
    /\ client_internal_id = [p \in Runs |-> "None"]
    /\ InitRunHistory

KvIdle ==
    /\ kvArgs = <<"None", "None", "None">>
    /\ kvPc = "off"
    /\ kvCredential = "unset"
    /\ vault = {}
    /\ kvLast = [op |-> "none", name |-> "", reply |-> "", result |-> Returned("None", "")]
    /\ kvDel = NoDelete

CliIdle ==
    /\ cliArgv = [verb |-> "none", rtype |-> "none", force |-> FALSE]
    /\ cliEnv = "unset"
    /\ cliConfig = [dry_run |-> FALSE]
    /\ cliPc = "off"
    /\ cliAnswer = "none"
    /\ cliOut = <<>>
    /\ cliExit = 0

\* kv = KeyVault(vault_name, tenant_id, client_id, client_secret)
InitKv ==
    /\ prog = "kv"
    /\ kvArgs \in OptionalStr \X OptionalStr \X OptionalStr
    /\ kvPc = "new"
    /\ kvCredential = "unset"
    /\ vault \in {{}, {[name |-> "api-key", value |-> ""]},
                  {[name |-> "api-key", value |-> "s3cr3t"],
                   [name |-> "db-password", value |-> "s3cr3t"]}}
    /\ kvLast = [op |-> "none", name |-> "", reply |-> "", result |-> Returned("None", "")]
    /\ kvDel = NoDelete

\* provisioner <verb> <type> NAME [--force]
InitCli ==
    /\ prog = "cli"
    /\ cliArgv \in [verb : Verbs, rtype : ResourceTypes, force : BOOLEAN]
    /\ cliEnv \in EnvValues
    /\ cliConfig = [dry_run |-> FALSE]
    /\ cliPc = "start"
    /\ cliAnswer = "none"
    /\ cliOut = <<>>
    /\ cliExit = 0

vars == <<prog, provVars, kvVars, cliVars>>

Init ==
    \/ InitProvision /\ KvIdle /\ CliIdle
    \/ InitRoles /\ KvIdle /\ CliIdle
    \/ InitKv /\ ProvIdle /\ CliIdle
    \/ InitCli /\ ProvIdle /\ KvIdle

Next ==
    \/ \E p \in Runs :
        \/ Connect(p)
        \/ GetRealm(p)
        \/ CreateRealm(p)
        \/ GetClients(p)
        \/ CreateClient(p)
        \/ GetClientId(p)
        \/ GetClientRoles(p)
        \/ RoleIter(p)
        \/ GetClientSecret(p)
    \/ KvNew \/ KvGet \/ KvExists \/ KvSet \/ KvDelete
    \/ cli
    \/ create_server \/ create_database \/ create_bucket
    \/ update_server \/ update_database \/ update_bucket
    \/ delete_server \/ delete_database \/ delete_bucket

Spec == Init /\ [][Next]_vars

----------------------------------------------------------------------------
\* Vocabulary of the properties.

EmptyServer == <<{MasterRealm}, {}, {}>>

NoFault(p) == \A i \in DOMAIN calls[p] : calls[p][i].reply \notin FaultReplies

CallsOf(p, op) == {i \in DOMAIN calls[p] : calls[p][i].op = op}

CreateCalls(p, op, name) ==
    {i \in CallsOf(p, op) : calls[p][i].name = name}

CreateOps == {"create_realm", "create_client", "create_client_role"}

RoleOps == {"get_client_roles", "create_client_role"}

Printed(p, line) == \E i \in DOMAIN out[p] : out[p][i] = line

\* the attributes an entity holds are those of the payload
Matches(entity, payload) == \A f \in DOMAIN payload : entity[f] = payload[f]

Occurrences(list, x) == Cardinality({i \in DOMAIN list : list[i] = x})

----------------------------------------------------------------------------
\* C1: when a run of main begins after another run has completed, the
\* realms, clients and client roles on the server, attributes included, stay
\* throughout the second run exactly as the first run left them, and unless
\* the server gives it an error reply the second run does not end in an
\* error.
C1_SecondRunChangesNothing ==
    prog = "provision" =>
        \A q \in Runs :
            after[q] =>
                /\ Server = startSnap[q]
                /\ NoFault(q) => pc[q] # "failed"

\* a second run that completed, after a first that began on an empty server
C1_Witness ==
    /\ prog = "provision"
    /\ \E p \in Runs, q \in Runs :
         /\ p # q /\ startSnap[p] = EmptyServer /\ pc[p] = "done"
         /\ after[q] /\ NoFault(q) /\ pc[q] = "done"

\* C2: for every realm, client or client role already on the server when
\* create_realm, create_client or create_client_roles is called, the run
\* issues no create call for that name, the entity keeps its attributes, and
\* for a client the id the function returns is the one it already had.
C2_PresentIsLeftAlone ==
    \A p \in Runs :
        /\ \A r \in atCall[p].realm :
             r \in realms /\ CreateCalls(p, "create_realm", r.realm) = {}
        /\ \A c \in atCall[p].client :
             /\ c \in clients /\ CreateCalls(p, "create_client", c.clientId) = {}
             /\ pc[p] = "get_client_roles" => client_internal_id[p] = c.id
        /\ \A r \in atCall[p].roles :
             r \in roles /\ CreateCalls(p, "create_client_role", r.name) = {}

\* C3: a run that completes alone and without error replies has issued,
\* for every name absent when it began, exactly one create call, and the
\* entity is then on the server with the requested attributes: the realm,
\* the client, and every name of the roles list given to
\* create_client_roles.
C3_AbsentIsCreatedOnce ==
    \A p \in Runs :
        (pc[p] = "done" /\ ~overlap /\ NoFault(p)) =>
            /\ (entry[p] = "main" /\ ~\E r \in startSnap[p][1] : r.realm = REALM_NAME) =>
                 /\ Cardinality(CreateCalls(p, "create_realm", REALM_NAME)) = 1
                 /\ realm_payload(REALM_NAME) \in realms
            /\ (entry[p] = "main" /\ ~\E c \in startSnap[p][2] :
                                        c.realm = REALM_NAME /\ c.clientId = CLIENT_ID) =>
                 /\ Cardinality(CreateCalls(p, "create_client", CLIENT_ID)) = 1
                 /\ \E c \in ClientsOf(REALM_NAME) :
                        Matches(c, client_payload(CLIENT_ID))
            /\ \A i \in DOMAIN roles_arg[p] :
                 LET n == roles_arg[p][i]
                 IN  (~\E r \in startSnap[p][3] :
                          r.client = client_internal_id[p] /\ r.name = n) =>
                       /\ Cardinality(CreateCalls(p, "create_client_role", n)) = 1
                       /\ NewRole(client_internal_id[p], role_payload(n)) \in roles

\* C4: only the explicit not-found reply is taken for absence: KeyVault.get
\* returns None, and exists returns False, only on not-found; create-realm is
\* issued only after get-realm answered not-found; a lookup answered with any
\* other error ends in an exception and triggers no create.
C4_OnlyNotFoundIsAbsence ==
    /\ kvLast.op \in {"get", "exists"} =>
         /\ kvLast.result.kind = "None" => kvLast.reply = "404"
         /\ kvLast.result = Returned("bool", "False") => kvLast.reply = "404"
         /\ kvLast.reply \in FaultReplies => kvLast.result.kind = "raise"
    /\ \A p \in Runs :
         /\ \A i \in CallsOf(p, "create_realm") :
              i > 1 /\ calls[p][i - 1].op = "get_realm"
                    /\ calls[p][i - 1].reply = "404"
         /\ \A i \in CallsOf(p, "get_realm") :
              calls[p][i].reply \in FaultReplies =>
                  (i = Len(calls[p]) /\ pc[p] = "failed")

\* C5: in a run of main, every list-client-roles and create-client-role call
\* comes after the client was confirmed on the server: the call before the
\* first of them is the client listing that found it, or the id lookup that
\* follows its creation; and every role call carries the internal id of the
\* client named CLIENT_ID in realm REALM_NAME.
C5_RolesAfterClient ==
    prog = "provision" =>
        \A p \in Runs : \A i \in DOMAIN calls[p] :
            calls[p][i].op \in RoleOps =>
                /\ \E j \in 1..(i - 1) :
                     /\ calls[p][j].reply = "200"
                     /\ \A k \in (j + 1)..(i - 1) : calls[p][k].op \in RoleOps
                     /\ \/ calls[p][j].op = "get_clients"
                        \/ /\ calls[p][j].op = "get_client_id"
                           /\ j > 1 /\ calls[p][j - 1].op = "create_client"
                           /\ calls[p][j - 1].reply = "201"
                /\ calls[p][i].realm = REALM_NAME
                /\ \E c \in ClientsOf(REALM_NAME) :
                     c.clientId = CLIENT_ID /\ c.id = calls[p][i].client

\* a run that created the client itself and then created a role under it
C5_Witness ==
    /\ prog = "provision"
    /\ \E p \in Runs :
         /\ \E i \in CallsOf(p, "create_client") : calls[p][i].reply = "201"
         /\ \E i \in CallsOf(p, "create_client_role") : calls[p][i].reply = "201"

\* whether the probe of the run reported the entity of create call i absent
ProbedAbsent(p, i) ==
    calls[p][i].op = "create_realm" =>
        (i > 1 /\ calls[p][i - 1].op = "get_realm" /\ calls[p][i - 1].reply = "404")

\* C6 as stated: in runs of the script on a server that answers truthfully, a
\* create that the run's probe found absent and the server answers with
\* already-exists (another run created the entity meanwhile) ends the run in failure,
\* the call being its last; for the realm, the client and each client role.
C6_DuplicateCreateFails ==
    (prog = "provision" /\ faults = 0) =>
        \A p \in Runs : \A i \in DOMAIN calls[p] :
            (calls[p][i].op \in CreateOps /\ calls[p][i].reply = "409"
                /\ ProbedAbsent(p, i)) =>
                    (i = Len(calls[p]) /\ pc[p] = "failed")

\* C6 as amended: an already-exists reply to create-client raises
\* KeycloakPostError and ends the run, the call being its last (no retry);
\* an already-exists reply to create-realm or create-client-role is absorbed
\* (skip_exists): the run does not fail at that call and reports the entity
\* as created.  No create is repeated: a run issues create-realm and
\* create-client at most once, and create-client-role for a name at most as
\* often as the name occurs in the roles list.
C6_DuplicateCreateByKind ==
    \A p \in Runs :
        /\ \A i \in DOMAIN calls[p] :
             (calls[p][i].op \in CreateOps /\ calls[p][i].reply = "409") =>
                 IF calls[p][i].op = "create_client"
                 THEN /\ i = Len(calls[p]) /\ pc[p] = "failed"
                      /\ exc[p] = "KeycloakPostError"
                      /\ ~Printed(p, "Created client '" \o CLIENT_ID \o "'")
                 ELSE /\ i = Len(calls[p]) => (pc[p] # "failed" /\ exc[p] = "none")
                      /\ calls[p][i].op = "create_realm" =>
                             Printed(p, "Created realm '" \o REALM_NAME \o "'")
                      /\ calls[p][i].op = "create_client_role" =>
                             Printed(p, "Created role '" \o calls[p][i].name \o "'")
        /\ Cardinality(CallsOf(p, "create_realm")) <= 1
        /\ Cardinality(CallsOf(p, "create_client")) <= 1
        /\ \A n \in RoleNames :
             Cardinality(CreateCalls(p, "create_client_role", n))
                 <= Occurrences(roles_arg[p], n)

\* two interleaved runs on truthful replies: one had its create-realm answered
\* already-exists and went on, the other had its create-client answered
\* already-exists and failed
C6_Witness ==
    /\ prog = "provision" /\ faults = 0
    /\ \E p \in Runs, q \in Runs :
         /\ \E i \in CallsOf(p, "create_realm") :
              calls[p][i].reply = "409" /\ i < Len(calls[p])
         /\ \E i \in CallsOf(q, "create_client") : calls[q][i].reply = "409"
         /\ pc[q] = "failed"

\* a reply that is a remote API error, not-found on the realm probe apart
Failing(c) ==
    /\ c.reply \notin {"200", "201"}
    /\ ~(c.op = "get_realm" /\ c.reply = "404")

\* C7: a call answered with a remote API error is the last call of its run,
\* which ends in failure; and what a run created stays on the server.
C7_FailFastNoRollback ==
    \A p \in Runs :
        /\ \A i \in DOMAIN calls[p] :
             Failing(calls[p][i]) => (i = Len(calls[p]) /\ pc[p] = "failed")
        /\ \A i \in DOMAIN calls[p] :
             calls[p][i].reply = "201" =>
                 CASE calls[p][i].op = "create_realm" ->
                        RealmExists(calls[p][i].name)
                   [] calls[p][i].op = "create_client" ->
                        FindClient(calls[p][i].realm, calls[p][i].name) # {}
                   [] calls[p][i].op = "create_client_role" ->
                        \E r \in RolesOf(calls[p][i].client) :
                            r.name = calls[p][i].name
                   [] OTHER -> TRUE

Partial(args) == PyAny(args) /\ ~PyAll(args)

\* C8 as stated: a KeyVault constructed with some but not all of tenant_id,
\* client_id and client_secret fails with a configuration error and does not
\* take DefaultAzureCredential.
C8_PartialFailsFast ==
    (kvPc \notin {"off", "new"} /\ Partial(kvArgs)) =>
        (kvPc = "config_error" /\ kvCredential # "DefaultAzureCredential")

\* C8 as amended: construction never fails on its arguments; it takes
\* ClientSecretCredential exactly when all three are non-empty and
\* DefaultAzureCredential otherwise, so also when only some are given.
C8_PartialFallsBack ==
    kvPc \notin {"off", "new"} =>
        /\ kvPc = "ready"
        /\ kvCredential \in {"ClientSecretCredential", "DefaultAzureCredential"}
        /\ kvCredential = "ClientSecretCredential" <=>
               \A i \in 1..3 : kvArgs[i] # "None" /\ kvArgs[i] # ""
        /\ Partial(kvArgs) => kvCredential = "DefaultAzureCredential"

\* a KeyVault constructed with a tenant and a client id but no secret
C8_Witness ==
    /\ kvPc = "ready" /\ kvArgs = <<"given", "given", "None">>
    /\ kvCredential = "DefaultAzureCredential"

Declined == ~cliArgv.force /\ cliAnswer \in {"n", ""}

\* C9: a command invoked without --force whose confirmation the user declines
\* (answers no, or just Enter) echoes neither its success lines nor the
\* dry-run line, only the cancellation, and exits with code 1, whatever the
\* dry-run setting and whichever of the nine commands it is.
C9_DeclinedDoesNothing ==
    (prog = "cli" /\ cliPc = "exited" /\ Declined) =>
        /\ cliExit = 1
        /\ cliOut[Len(cliOut)] = "Operation cancelled."
        /\ \A i \in DOMAIN cliOut :
             cliOut[i] \notin {"DRY RUN - No changes made",
                               "Provisioned on", "Changes applied on", "Removed from",
                               "Successfully " \o cliArgv.verb \o "d " \o cliArgv.rtype}
        /\ \A p \in Runs : calls[p] = <<>>

\* a declined delete under dry-run
C9_Witness ==
    /\ prog = "cli" /\ cliPc = "exited" /\ Declined
    /\ cliArgv.verb = "delete" /\ cliConfig.dry_run

\* C10: once a run of main has come to fetch the client secret, it completes
\* and prints the summary; when the fetch is answered with an error the
\* secret line of the summary is empty.
C10_SummaryAlwaysPrinted ==
    \A p \in Runs : \A i \in CallsOf(p, "get_client_secrets") :
        /\ pc[p] = "done"
        /\ Printed(p, "Provisioning complete!")
        /\ calls[p][i].reply \in FaultReplies => Printed(p, "Client Secret: ")

\* the calls of run p from position i on are the operations ops, in order
CallsFrom(p, i, ops) ==
    /\ Len(calls[p]) = i + Len(ops) - 1
    /\ \A k \in DOMAIN ops : calls[p][i + k - 1].op = ops[k]

\* C11: a run of the script that got no error reply and has come to the end
\* of the module has issued, after get-client-secrets and the summary, the
\* calls create-user for 'testuser', get-user-id, get-client-id,
\* get-client-role for 'owner' and assign-client-role, in that order; user
\* 'testuser' is on the server holding client role 'owner' of CLIENT_ID; and
\* no exception ended the process.
C11_TestUserGetsOwner ==
    \A p \in Runs :
        (prog = "provision" /\ pc[p] = "done" /\ NoFault(p)
            /\ tail[p] # "pending") =>
            /\ tail[p] = "none"
            /\ Printed(p, "Provisioning complete!")
            /\ \E i \in CallsOf(p, "get_client_secrets") :
                 CallsFrom(p, i + 1, <<"create_user", "get_user_id", "get_client_id",
                                       "get_client_role", "assign_client_role">>)
            /\ \A i \in CallsOf(p, "create_user") : calls[p][i].name = "testuser"
            /\ \A i \in CallsOf(p, "get_client_role") : calls[p][i].name = "owner"
            /\ \E u \in users, c \in FindClient(REALM_NAME, CLIENT_ID) :
                 /\ u.username = "testuser"
                 /\ <<c.id, "owner">> \in u.client_roles

\* the line create_client_roles prints for a role: created, or found present
RoleLine(kind, n) ==
    IF kind = "created" THEN "Created role '" \o n \o "'"
    ELSE "Role '" \o n \o "' already exists"

CreatedLines == {RoleLine("created", n) : n \in RoleNames}

ExistsLines == {RoleLine("exists", n) : n \in RoleNames}

IsCreatedLine(l) == l \in CreatedLines

IsRoleLine(l) == l \in CreatedLines \cup ExistsLines

IsRoleCreate(c) == c.op = "create_client_role"

\* C12: the per-role outcomes a run prints are, one by one, about the names
\* of the roles list in list order, one for every name once the loop is
\* over; its create-client-role calls are, in order, those of the names
\* reported created (and, in a run that failed at a create, that of the next
\* name of the list); and a run over the same list that begins after another
\* has completed issues no create-client-role call and reports every role as
\* already existing.
C12_RolesInListOrder ==
    \A p \in Runs :
        LET outcomes == SelectSeq(out[p], IsRoleLine)
            created == SelectSeq(out[p], IsCreatedLine)
            creates == SelectSeq(calls[p], IsRoleCreate)
        IN  /\ Len(outcomes) <= Len(roles_arg[p])
            /\ \A k \in DOMAIN outcomes :
                 outcomes[k] \in {RoleLine("created", roles_arg[p][k]),
                                  RoleLine("exists", roles_arg[p][k])}
            /\ pc[p] \in {"done", "get_client_secrets"} =>
                 Len(outcomes) = Len(roles_arg[p])
            /\ Len(creates) \in {Len(created), Len(created) + 1}
            /\ \A k \in DOMAIN created :
                 created[k] = RoleLine("created", creates[k].name)
            /\ Len(creates) = Len(created) + 1 =>
                 /\ pc[p] = "failed"
                 /\ creates[Len(creates)].name = roles_arg[p][Len(outcomes) + 1]
            /\ after[p] =>
                 /\ creates = <<>>
                 /\ \A k \in DOMAIN outcomes :
                      outcomes[k] = RoleLine("exists", roles_arg[p][k])

\* create_client_roles given owner before reader on a client without roles:
\* both were created, in that order, and the rerun found both
C12_Witness ==
    /\ prog = "roles"
    /\ \E p \in Runs, q \in Runs :
         /\ roles_arg[p] = <<"owner", "reader">>
         /\ startSnap[p][3] = {} /\ pc[p] = "done"
         /\ SelectSeq(calls[p], IsRoleCreate) =
                << Call("create_client_role", REALM_NAME, "uuid-old", "owner", "201"),
                   Call("create_client_role", REALM_NAME, "uuid-old", "reader", "201") >>
         /\ out[p] = <<RoleLine("created", "owner"), RoleLine("created", "reader")>>
         /\ after[q] /\ pc[q] = "done"
         /\ out[q] = <<RoleLine("exists", "owner"), RoleLine("exists", "reader")>>

Confirmed == cliArgv.force \/ cliAnswer = "y"

Echoed(line) == \E i \in DOMAIN cliOut : cliOut[i] = line

SuccessLines ==
    {"Successfully " \o cliArgv.verb \o "d " \o cliArgv.rtype,
     "Provisioned on", "Changes applied on", "Removed from"}

\* C13: a command that has ended exits with 0 when the user answered yes or
\* --force was given, with or without dry-run, and with 1 only when the
\* confirmation was declined; with --force nothing is asked, without it the
\* prompt is shown; dry-run mode is PROVISIONER_DRY_RUN being "true" in any
\* letter case; a confirmed command in dry-run mode ends with the dry-run
\* line and echoes no success line, outside dry-run mode it echoes its
\* success line and no dry-run line; and the dry-run line or a success line
\* is echoed only by a confirmed command, after the prompt if one was shown.
C13_ExitCodesAndDryRun ==
    (prog = "cli" /\ cliPc = "exited") =>
        /\ cliExit \in {0, 1}
        /\ Confirmed => cliExit = 0
        /\ cliExit = 1 => Declined
        /\ cliArgv.force => (cliAnswer = "none" /\ ~Echoed("prompt") /\ ~Echoed("WARNING"))
        /\ ~cliArgv.force => (cliAnswer \in Answers /\ Echoed("prompt"))
        /\ cliConfig.dry_run <=> cliEnv \in {"true", "TRUE", "True"}
        /\ (Confirmed /\ cliConfig.dry_run) =>
             /\ cliOut[Len(cliOut)] = "DRY RUN - No changes made"
             /\ \A l \in SuccessLines : ~Echoed(l)
        /\ (Confirmed /\ ~cliConfig.dry_run) =>
             /\ Echoed("Successfully " \o cliArgv.verb \o "d " \o cliArgv.rtype)
             /\ ~Echoed("DRY RUN - No changes made")
        /\ \A i \in DOMAIN cliOut :
             cliOut[i] \in SuccessLines \cup {"DRY RUN - No changes made"} =>
                 /\ Confirmed
                 /\ ~cliArgv.force => \E j \in 1..(i - 1) : cliOut[j] = "prompt"

\* an update confirmed at the prompt under PROVISIONER_DRY_RUN=TRUE
C13_Witness ==
    /\ prog = "cli" /\ cliPc = "exited"
    /\ cliArgv.verb = "update" /\ ~cliArgv.force /\ cliAnswer = "y"
    /\ cliEnv = "TRUE" /\ cliConfig.dry_run
    /\ cliExit = 0 /\ Echoed("DRY RUN - No changes made")

KvOps(op) == {i \in DOMAIN kvDel.trace : kvDel.trace[i].op = op}

\* begin_delete_secret was accepted and the wait on its poller returned
PolledToCompletion ==
    /\ Len(kvDel.trace) >= 2
    /\ kvDel.trace[1].op = "begin_delete_secret" /\ kvDel.trace[1].reply = "200"
    /\ kvDel.trace[2].op = "wait" /\ kvDel.trace[2].reply = "200"

\* C14: a call of delete(name, purge) issues begin-delete-secret for the name
\* first and, if that is accepted, waits for the poller next; it returns only
\* when the wait has completed; purge-deleted-secret is issued exactly when
\* purge is true and the deletion was polled to completion, as the third and
\* last request; a request that fails is the last one of the call, so none
\* follows a failed begin-delete or wait, and its error is what the call
\* raises.
C14_DeleteWaitsThenPurges ==
    kvLast.op = "delete" =>
        /\ Len(kvDel.trace) \in 1..3
        /\ KvOps("begin_delete_secret") = {1}
        /\ kvDel.trace[1].name = kvLast.name
        /\ kvDel.trace[1].reply = "200" => KvOps("wait") = {2}
        /\ kvDel.trace[1].reply # "200" => KvOps("wait") = {}
        /\ kvLast.result.kind # "raise" => PolledToCompletion
        /\ KvOps("purge_deleted_secret") # {} <=> (kvDel.purge /\ PolledToCompletion)
        /\ KvOps("purge_deleted_secret") \subseteq {3}
        /\ \A i \in DOMAIN kvDel.trace :
             kvDel.trace[i].reply # "200" =>
                 /\ i = Len(kvDel.trace)
                 /\ kvLast.result = Returned("raise", AzureRaised(kvDel.trace[i].reply))
        /\ (\A i \in DOMAIN kvDel.trace : kvDel.trace[i].reply = "200") =>
               kvLast.result = Returned("None", "")

\* a delete with purge whose three requests all succeeded
C14_Witness ==
    /\ kvLast.op = "delete" /\ kvDel.purge
    /\ Len(kvDel.trace) = 3 /\ PolledToCompletion
    /\ kvDel.trace[3] = KvRequest("purge_deleted_secret", kvLast.name, "200")
    /\ kvLast.result = Returned("None", "")
    /\ SecretsNamed(kvLast.name) = {}

====
